---------------------------- MODULE Spec2Model ----------------------------
(***************************************************************************)
(* A model of BrainRust (src/src/main.rs): the compile pipeline            *)
(* lex_program -> parse_program -> produce_code that main runs, and the    *)
(* direct interpreter `interpret`.                                         *)
(*                                                                         *)
(* Rust indices are 0-based and are kept 0-based in the state (pos,        *)
(* argument, i, ptr); element k of a Rust vector v is v[k + 1] here.       *)
(***************************************************************************)
EXTENDS Integers, Sequences, FiniteSets

VARIABLES
  program,        \* the source text, a sequence of characters
  overflow_checks,\* the build: TRUE = overflow checks on (dev), FALSE = off (release)
  pc,             \* where control is: "lex" "parse" "gen" "interpret" "done" "panic"
  fault,          \* the panic that ended the run, or "none"
  ci,             \* lex_program: number of characters consumed
  tokens,         \* lex_program: the Vec<Token> built so far
  pos,            \* parse_program: pos
  instructions,   \* parse_program: instructions
  parse_stack,    \* parse_program: stack
  gi,             \* produce_code: number of instructions translated
  code,           \* produce_code: code, a sequence of fragments (sequences of lines)
  loop_stack,     \* produce_code: stack (the LabelStack)
  tape,           \* interpret: tape
  ptr,            \* interpret: ptr
  stack,          \* interpret: stack
  is_looping,     \* interpret: is_looping
  inner_loops,    \* interpret: inner_loops
  i,              \* interpret: i
  output,         \* interpret: output, a sequence of character codes
  stdout,         \* what println! has written: a sequence of printed buffers
  read_line       \* interpret: the result of the latest stdin().read_line(&mut line)

vars == <<program, overflow_checks, pc, fault, ci, tokens, pos, instructions,
          parse_stack, gi, code, loop_stack, tape, ptr, stack, is_looping,
          inner_loops, i, output, stdout, read_line>>

compileVars == <<ci, tokens, pos, instructions, parse_stack, gi, code, loop_stack>>
interpVars  == <<tape, ptr, stack, is_looping, inner_loops, i, output, stdout,
                 read_line>>

----------------------------------------------------------------------------
(* Bounds of the model *)

\* sources over the whole alphabet have at most MaxLen characters
MaxLen == 4
\* sources made of brackets only have at most MaxBracketLen characters
MaxBracketLen == 8
\* sources given to the interpreter have at most MaxSrcLen characters
MaxSrcLen == 4
\* cap of the skip counter inner_loops (an i32 in the code)
MaxInner == 3
\* cap of the length of the interpreter's output buffer
MaxOutput == 3
\* counting loops +^n [-] are given to the interpreter for n <= MaxCount (and n = 255)
MaxCount == 5
\* sources made of loop characters only (LoopChars) have at most MaxLoopLen characters
MaxLoopLen == 6

(* Program constants *)

TapeLen == 100
CellMod == 256

----------------------------------------------------------------------------
(* Characters.  WideChar stands for a non-operator character whose UTF-8   *)
(* encoding takes two bytes; OtherChar for a one-byte non-operator.        *)

OtherChar == "x"
WideChar  == "U+00E9"

OpChars  == {"+", "-", ">", "<", ".", ",", "[", "]"}
Alphabet == OpChars \cup {OtherChar, WideChar}
Brackets == {"[", "]"}

Utf8Len(c) == IF c = WideChar THEN 2 ELSE 1

\* String::len(): the length in bytes, one per character and one more for
\* each two-byte character
ByteLen(s) == Len(s) + Cardinality({k \in 1..Len(s) : Utf8Len(s[k]) = 2})

SeqsUpTo(S, n) == UNION {[1..k -> S] : k \in 0..n}

Last(s) == s[Len(s)]
Front(s) == SubSeq(s, 1, Len(s) - 1)

----------------------------------------------------------------------------
(* Token and Inst *)

Token == {"Plus", "Minus", "Right", "Left", "PutChar", "ReadChar",
          "JumpIfZero", "JumpIfNonZero"}

Inst(t, a) == [typ |-> t, argument |-> a]

----------------------------------------------------------------------------
(* lex_program *)

\* one iteration of the `for c in program.chars()` loop: the match on c
LexChar_DropComma(toks, c) ==
  CASE c = "+" -> Append(toks, "Plus")
    [] c = "-" -> Append(toks, "Minus")
    [] c = ">" -> Append(toks, "Right")
    [] c = "<" -> Append(toks, "Left")
    [] c = "." -> Append(toks, "PutChar")
    [] c = "[" -> Append(toks, "JumpIfZero")
    [] c = "]" -> Append(toks, "JumpIfNonZero")
    [] OTHER   -> toks

LexChar(toks, c) ==
  CASE c = "+" -> Append(toks, "Plus")
    [] c = "-" -> Append(toks, "Minus")
    [] c = ">" -> Append(toks, "Right")
    [] c = "<" -> Append(toks, "Left")
    [] c = "." -> Append(toks, "PutChar")
    [] c = "," -> Append(toks, "ReadChar")
    [] c = "[" -> Append(toks, "JumpIfZero")
    [] c = "]" -> Append(toks, "JumpIfNonZero")
    [] OTHER   -> toks

LexStep ==
  /\ pc = "lex"
  /\ ci < Len(program)
  /\ tokens' = LexChar(tokens, program[ci + 1])
  /\ ci' = ci + 1
  /\ UNCHANGED <<program, overflow_checks, pc, fault, pos, instructions,
                 parse_stack, gi, code, loop_stack>>
  /\ UNCHANGED interpVars

\* Ok(tokens), then main's unwrap and the call of parse_program
LexReturn ==
  /\ pc = "lex"
  /\ ci = Len(program)
  /\ pc' = "parse"
  /\ pos' = 0
  /\ instructions' = <<>>
  /\ parse_stack' = <<>>
  /\ UNCHANGED <<program, overflow_checks, fault, ci, tokens, gi, code, loop_stack>>
  /\ UNCHANGED interpVars

----------------------------------------------------------------------------
(* parse_program *)

RECURSIVE fold_run(_, _, _, _)
\* the while loop of compile_foldable, with its local count
fold_run(token, p, prog, count) ==
  IF p < Len(prog) - 1 /\ prog[(p + 1) + 1] = token
  THEN fold_run(token, p + 1, prog, count + 1)
  ELSE [inst |-> Inst(token, count), pos |-> p]

\* a fold that counts the run but leaves pos where it was
compile_foldable_KeepPos(token, p, prog) ==
  [inst |-> fold_run(token, p, prog, 1).inst, pos |-> p]

\* a fold that never looks ahead: one instruction per token
compile_foldable_NoFold(token, p, prog) == [inst |-> Inst(token, 1), pos |-> p]

\* compile_foldable: the instruction, and *pos as it leaves it
compile_foldable(token, p, prog) == fold_run(token, p, prog, 1)

\* the JumpIfNonZero arm without the write-back of the patched copy
CloseLoop_NoWriteBack(insts, open_inst_ptr) ==
  Append(insts, Inst("JumpIfNonZero", open_inst_ptr))

\* the JumpIfNonZero arm patching the open with the index after the close
CloseLoop_OffByOne(insts, open_inst_ptr) ==
  LET open_inst == [insts[open_inst_ptr + 1] EXCEPT !.argument = Len(insts) + 1]
      pushed    == Append(insts, Inst("JumpIfNonZero", open_inst_ptr))
  IN  [pushed EXCEPT ![open_inst_ptr + 1] = open_inst]

\* the JumpIfNonZero arm after the pop: patch a copy of the open, push the
\* close, write the copy back
CloseLoop(insts, open_inst_ptr) ==
  LET open_inst == [insts[open_inst_ptr + 1] EXCEPT !.argument = Len(insts)]
      pushed    == Append(insts, Inst("JumpIfNonZero", open_inst_ptr))
  IN  [pushed EXCEPT ![open_inst_ptr + 1] = open_inst]

\* one iteration of the while loop that lets an unmatched close pass
ParseStep_SkipUnmatched ==
  /\ pc = "parse"
  /\ pos < Len(tokens)
  /\ LET curr == tokens[pos + 1] IN
       CASE curr = "JumpIfZero" ->
              /\ parse_stack' = Append(parse_stack, Len(instructions))
              /\ instructions' = Append(instructions, Inst("JumpIfZero", 0))
              /\ pos' = pos + 1
              /\ UNCHANGED <<pc, fault>>
         [] curr = "JumpIfNonZero" ->
              IF parse_stack = <<>>
              THEN /\ pos' = pos + 1
                   /\ UNCHANGED <<pc, fault, instructions, parse_stack>>
              ELSE /\ parse_stack' = Front(parse_stack)
                   /\ instructions' = CloseLoop(instructions, Last(parse_stack))
                   /\ pos' = pos + 1
                   /\ UNCHANGED <<pc, fault>>
         [] OTHER ->
              LET r == compile_foldable(curr, pos, tokens) IN
                /\ instructions' = Append(instructions, r.inst)
                /\ pos' = r.pos + 1
                /\ UNCHANGED <<pc, fault, parse_stack>>
  /\ UNCHANGED <<program, overflow_checks, ci, tokens, gi, code, loop_stack>>
  /\ UNCHANGED interpVars

\* one iteration of `while pos < program.len()`
ParseStep ==
  /\ pc = "parse"
  /\ pos < Len(tokens)
  /\ LET curr == tokens[pos + 1] IN
       CASE curr = "JumpIfZero" ->
              /\ parse_stack' = Append(parse_stack, Len(instructions))
              /\ instructions' = Append(instructions, Inst("JumpIfZero", 0))
              /\ pos' = pos + 1
              /\ UNCHANGED <<pc, fault>>
         [] curr = "JumpIfNonZero" ->
              IF parse_stack = <<>>
              THEN \* stack.pop().unwrap() on an empty stack
                   /\ pc' = "panic"
                   /\ fault' = "unwrap_none"
                   /\ UNCHANGED <<pos, instructions, parse_stack>>
              ELSE /\ parse_stack' = Front(parse_stack)
                   /\ instructions' = CloseLoop(instructions, Last(parse_stack))
                   /\ pos' = pos + 1
                   /\ UNCHANGED <<pc, fault>>
         [] OTHER ->
              LET r == compile_foldable(curr, pos, tokens) IN
                /\ instructions' = Append(instructions, r.inst)
                /\ pos' = r.pos + 1
                /\ UNCHANGED <<pc, fault, parse_stack>>
  /\ UNCHANGED <<program, overflow_checks, ci, tokens, gi, code, loop_stack>>
  /\ UNCHANGED interpVars

HEADER == <<[text |-> "HEADER", arg |-> 0]>>
TAIL   == <<[text |-> "TAIL", arg |-> 0]>>

\* Ok(instructions), main's unwrap, and the first two lines of produce_code
ParseReturn ==
  /\ pc = "parse"
  /\ pos >= Len(tokens)
  /\ pc' = "gen"
  /\ gi' = 0
  /\ code' = <<HEADER>>
  /\ loop_stack' = <<>>
  /\ UNCHANGED <<program, overflow_checks, fault, ci, tokens, pos, instructions,
                 parse_stack>>
  /\ UNCHANGED interpVars

----------------------------------------------------------------------------
(* produce_code.  A line of the emitted text is its format string and the  *)
(* integer formatted into it (0 when the line has no placeholder).         *)

Line(t, a) == [text |-> t, arg |-> a]
Plain(t)   == Line(t, 0)

\* label_push returning the old top instead of the number it pushed
label_push_ReturnLast(s) ==
  LET last == IF s = <<>> THEN 0 ELSE Last(s)
  IN  [stack |-> Append(s, last + 1), ret |-> last]

\* label_push returning the new number without pushing it
label_push_NoPush(s) ==
  LET last == IF s = <<>> THEN 0 ELSE Last(s)
  IN  [stack |-> s, ret |-> last + 1]

label_push(s) ==
  LET last == IF s = <<>> THEN 0 ELSE Last(s)
  IN  [stack |-> Append(s, last + 1), ret |-> last + 1]

\* bytecode::plus
plus(count) ==
  << Plain("aload_2"), Plain("iload_1"), Plain("dup2"), Plain("iaload"),
     Line("bipush {}", count), Plain("iadd"), Plain("iastore") >>

\* bytecode::mov
mov(count) == << Line("iinc 1 {}", count) >>

\* bytecode::out
out ==
  << Plain("getstatic java/lang/System/out Ljava/io/PrintStream;"),
     Plain("aload_2"), Plain("iload_1"), Plain("iaload"), Plain("i2c"),
     Plain("invokevirtual java/io/PrintStream/print(C)V") >>

\* bytecode::input
input ==
  << Plain("aload_2"), Plain("iload_1"),
     Plain("getstatic java/lang/System/in Ljava/io/InputStream;"),
     Plain("invokevirtual java/io/InputStream/read()I"),
     Plain("iastore") >>

\* bytecode::loop_start
loop_start(s) ==
  LET r == label_push(s)
      p == r.ret
  IN  [stack |-> r.stack,
       text  |-> << Line("loop{}Start:", p), Plain("aload_2"), Plain("iload_1"),
                    Plain("iaload"), Line("ifeq loop{}End", p) >>]

\* bytecode::loop_end taking the outermost open label instead of the innermost
loop_end_Outermost(s) ==
  LET p == s[1]
  IN  [stack |-> Front(s),
       text  |-> << Line("goto loop{}Start", p), Line("loop{}End:", p) >>]

\* bytecode::loop_end, for a non-empty stack (pop().unwrap() succeeds)
loop_end(s) ==
  LET p == Last(s)
  IN  [stack |-> Front(s),
       text  |-> << Line("goto loop{}Start", p), Line("loop{}End:", p) >>]

\* Inst::to_bytecode: the fragment and the label stack it leaves
to_bytecode(inst, s) ==
  LET arg == inst.argument IN
  CASE inst.typ = "Plus"          -> [stack |-> s, text |-> plus(arg)]
    [] inst.typ = "Minus"         -> [stack |-> s, text |-> plus(-arg)]
    [] inst.typ = "Left"          -> [stack |-> s, text |-> mov(-arg)]
    [] inst.typ = "Right"         -> [stack |-> s, text |-> mov(arg)]
    [] inst.typ = "PutChar"       -> [stack |-> s, text |-> out]
    [] inst.typ = "ReadChar"      -> [stack |-> s, text |-> input]
    [] inst.typ = "JumpIfZero"    -> loop_start(s)
    [] inst.typ = "JumpIfNonZero" -> loop_end(s)

\* one iteration of `for inst in instructions`
GenStep ==
  /\ pc = "gen"
  /\ gi < Len(instructions)
  /\ LET inst == instructions[gi + 1] IN
       IF inst.typ = "JumpIfNonZero" /\ loop_stack = <<>>
       THEN \* stack.pop().unwrap() on an empty label stack
            /\ pc' = "panic"
            /\ fault' = "unwrap_none"
            /\ UNCHANGED <<gi, code, loop_stack>>
       ELSE LET r == to_bytecode(inst, loop_stack) IN
            /\ code' = Append(code, r.text)
            /\ loop_stack' = r.stack
            /\ gi' = gi + 1
            /\ UNCHANGED <<pc, fault>>
  /\ UNCHANGED <<program, overflow_checks, ci, tokens, pos, instructions, parse_stack>>
  /\ UNCHANGED interpVars

\* code.push(TAIL) and the return of the joined text
GenReturn ==
  /\ pc = "gen"
  /\ gi = Len(instructions)
  /\ code' = Append(code, TAIL)
  /\ pc' = "done"
  /\ UNCHANGED <<program, overflow_checks, fault, ci, tokens, pos, instructions,
                 parse_stack, gi, loop_stack>>
  /\ UNCHANGED interpVars

----------------------------------------------------------------------------
(* The compile pipeline of main *)

\* no line has been read yet
NothingRead == [ok |-> FALSE, line |-> <<>>]

ZeroTape == [k \in 0..(TapeLen - 1) |-> 0]

Sources == SeqsUpTo(Alphabet, MaxLen) \cup SeqsUpTo(Brackets, MaxBracketLen)

Init ==
  /\ program \in Sources
  /\ overflow_checks = FALSE
  /\ pc = "lex"
  /\ fault = "none"
  /\ ci = 0
  /\ tokens = <<>>
  /\ pos = 0
  /\ instructions = <<>>
  /\ parse_stack = <<>>
  /\ gi = 0
  /\ code = <<>>
  /\ loop_stack = <<>>
  /\ tape = ZeroTape
  /\ ptr = 0
  /\ stack = <<>>
  /\ is_looping = FALSE
  /\ inner_loops = 0
  /\ i = 0
  /\ output = <<>>
  /\ stdout = <<>>
  /\ read_line = NothingRead

Next ==
  \/ LexStep
  \/ LexReturn
  \/ ParseStep
  \/ ParseReturn
  \/ GenStep
  \/ GenReturn

Spec == Init /\ [][Next]_vars

----------------------------------------------------------------------------
(* Vocabulary of the properties of the compile pipeline *)

RECURSIVE Flatten(_)
\* the emitted text: the lines of all fragments, in order
Flatten(frags) == IF frags = <<>> THEN <<>> ELSE Head(frags) \o Flatten(Tail(frags))

EmittedLines == Flatten(code)

LinesOf(t) == {k \in 1..Len(EmittedLines) : EmittedLines[k].text = t}
NumbersOf(t) == {EmittedLines[k].arg : k \in LinesOf(t)}

CountTyp(insts, t) == Cardinality({k \in 1..Len(insts) : insts[k].typ = t})

\* opens minus closes of a token sequence
NetDepth(toks) ==
  Cardinality({k \in 1..Len(toks) : toks[k] = "JumpIfZero"})
    - Cardinality({k \in 1..Len(toks) : toks[k] = "JumpIfNonZero"})

\* some prefix has more closes than opens
HasUnmatchedClose(toks) ==
  \E k \in 1..Len(toks) : NetDepth(SubSeq(toks, 1, k)) < 0

\* the 1-based place of the first close that no open precedes
FirstUnmatchedClose(toks) ==
  CHOOSE k \in 1..Len(toks) :
    /\ NetDepth(SubSeq(toks, 1, k)) < 0
    /\ \A m \in 1..(k - 1) : NetDepth(SubSeq(toks, 1, m)) >= 0

Balanced(toks) == ~HasUnmatchedClose(toks) /\ NetDepth(toks) = 0

\* parse_program has returned Ok(instructions)
ParseReturned == pc \in {"gen", "done"}

\* every close names an open that names it back
ClosesPaired(insts) ==
  \A j \in 0..(Len(insts) - 1) :
    insts[j + 1].typ = "JumpIfNonZero" =>
      LET k == insts[j + 1].argument IN
        /\ k \in 0..(Len(insts) - 1)
        /\ insts[k + 1].typ = "JumpIfZero"
        /\ insts[k + 1].argument = j

\* every open names a close that names it back
OpensPaired(insts) ==
  \A k \in 0..(Len(insts) - 1) :
    insts[k + 1].typ = "JumpIfZero" =>
      LET j == insts[k + 1].argument IN
        /\ j \in 0..(Len(insts) - 1)
        /\ insts[j + 1].typ = "JumpIfNonZero"
        /\ insts[j + 1].argument = k

PairingLaw(insts) ==
  /\ CountTyp(insts, "JumpIfZero") = CountTyp(insts, "JumpIfNonZero")
  /\ OpensPaired(insts)
  /\ ClosesPaired(insts)

\* the fragment produce_code pushed for instruction k (code[1] is HEADER)
FragmentOf(k) == code[k + 2]

Foldable == {"Plus", "Minus", "Right", "Left", "PutChar", "ReadChar"}

RECURSIVE Copies(_, _)
Copies(t, n) == IF n <= 0 THEN <<>> ELSE <<t>> \o Copies(t, n - 1)

RECURSIVE Expand(_)
\* argument copies of each foldable token, one bracket token per loop instruction
Expand(insts) ==
  IF insts = <<>> THEN <<>>
  ELSE LET h == Head(insts) IN
       (IF h.typ \in Foldable THEN Copies(h.typ, h.argument) ELSE <<h.typ>>)
         \o Expand(Tail(insts))

TokenOf(c) ==
  CASE c = "+" -> "Plus"      [] c = "-" -> "Minus"
    [] c = ">" -> "Right"     [] c = "<" -> "Left"
    [] c = "." -> "PutChar"   [] c = "," -> "ReadChar"
    [] c = "[" -> "JumpIfZero" [] c = "]" -> "JumpIfNonZero"

IsOpChar(c) == c \in OpChars

\* the operator characters of a text, in order, as tokens
OperatorTokens(text) ==
  LET ops == SelectSeq(text, IsOpChar)
  IN  [k \in 1..Len(ops) |-> TokenOf(ops[k])]

----------------------------------------------------------------------------
(* Properties of the compile pipeline, checked under Spec *)

\* C1 (as claimed): when produce_code has finished on a balanced source with
\* k loops, the emitted loop{}Start: labels carry exactly k distinct numbers.
C1_LabelNumbersUnique ==
  (pc = "done" /\ Balanced(tokens)) =>
    Cardinality(NumbersOf("loop{}Start:")) = CountTyp(instructions, "JumpIfZero")

\* C2 (as claimed): for every source text on which parse_program returns, the
\* list satisfies the pairing law (equal counts, opens and closes name each other).
C2_PairingLawAllSources == ParseReturned => PairingLaw(instructions)

\* C2 (amended): in every list parse_program returns each JumpIfNonZero is
\* paired with a JumpIfZero that names it back; when the brackets of the source
\* are balanced the counts are equal and each JumpIfZero is paired as well.
C2_PairingLawBalanced ==
  ParseReturned =>
    /\ ClosesPaired(instructions)
    /\ Balanced(tokens) => PairingLaw(instructions)

C2_Witness ==
  /\ ParseReturned
  /\ program = <<"[", "[", "[", "]", "[", "]", "]", "]">>

\* C3: in the text produce_code emits for a parser-produced list, the fragment
\* of each JumpIfNonZero is `goto loopNStart`, `loopNEnd:` with N the number in
\* the `loopNStart:` / `ifeq loopNEnd` fragment of the JumpIfZero the parser
\* paired it with.
C3_CloseReusesLabelOfItsOpen ==
  (pc \in {"gen", "done"}) =>
    \A j \in 0..(gi - 1) :
      instructions[j + 1].typ = "JumpIfNonZero" =>
        LET open == FragmentOf(instructions[j + 1].argument)
            n    == open[1].arg
        IN  /\ open[1] = Line("loop{}Start:", n)
            /\ open[5] = Line("ifeq loop{}End", n)
            /\ FragmentOf(j) = << Line("goto loop{}Start", n), Line("loop{}End:", n) >>

C3_Witness ==
  /\ pc = "done"
  /\ \E j, k \in 0..(gi - 1) :
       /\ instructions[j + 1].typ = "JumpIfNonZero"
       /\ instructions[k + 1].typ = "JumpIfNonZero"
       /\ FragmentOf(j)[2].arg = 2
       /\ FragmentOf(k)[2].arg = 1
       /\ j < k

GotoTargetsDefined == NumbersOf("goto loop{}Start") \subseteq NumbersOf("loop{}Start:")
IfeqTargetsDefined == NumbersOf("ifeq loop{}End") \subseteq NumbersOf("loop{}End:")

\* C4 (as claimed): for any program on which parse_program returns, every
\* branch target of the emitted text is a label the text defines.
C4_NoDanglingLabelAllSources ==
  pc = "done" => GotoTargetsDefined /\ IfeqTargetsDefined

\* C4 (amended): every goto target of the emitted text is defined; when the
\* brackets of the source are balanced every ifeq target is defined too.
C4_NoDanglingLabelBalanced ==
  pc = "done" =>
    /\ GotoTargetsDefined
    /\ Balanced(tokens) => IfeqTargetsDefined

C4_Witness ==
  /\ pc = "done"
  /\ Balanced(tokens)
  /\ Cardinality(LinesOf("ifeq loop{}End")) >= 2
  /\ Cardinality(LinesOf("goto loop{}Start")) >= 2

\* C5: when some prefix of the token sequence has more closes than opens,
\* parse_program never gets past the first such close and never returns; it
\* panics exactly there.
C5_UnmatchedCloseRejected ==
  (pc # "lex" /\ HasUnmatchedClose(tokens)) =>
    /\ pc \in {"parse", "panic"}
    /\ pos + 1 <= FirstUnmatchedClose(tokens)
    /\ pc = "panic" =>
         /\ fault = "unwrap_none"
         /\ pos + 1 = FirstUnmatchedClose(tokens)
         /\ tokens[pos + 1] = "JumpIfNonZero"

C5_Witness ==
  /\ pc = "panic"
  /\ program = <<"]">>
  /\ instructions = <<>>

\* C6 (as claimed): `[-]` parses to (JumpIfZero,1), (Minus,1), (JumpIfNonZero,0).
C6_LoopScenarioAsClaimed ==
  (ParseReturned /\ program = <<"[", "-", "]">>) =>
    instructions = << Inst("JumpIfZero", 1), Inst("Minus", 1), Inst("JumpIfNonZero", 0) >>

\* C6 (amended): `[-]` parses to (JumpIfZero,2), (Minus,1), (JumpIfNonZero,0):
\* the open carries the index of its close, which is 2.
C6_LoopScenario ==
  (ParseReturned /\ program = <<"[", "-", "]">>) =>
    instructions = << Inst("JumpIfZero", 2), Inst("Minus", 1), Inst("JumpIfNonZero", 0) >>

C6_Witness ==
  /\ ParseReturned
  /\ program = <<"[", "-", "]">>
  /\ Len(instructions) = 3

\* C7: when parse_program returns, expanding each foldable instruction into
\* `argument` copies of its token and each loop instruction into its bracket
\* token gives back the token sequence it was given.
C7_FoldingRoundTrip == ParseReturned => Expand(instructions) = tokens

C7_Witness ==
  /\ ParseReturned
  /\ \E k \in 1..Len(instructions) :
       instructions[k].typ \in Foldable /\ instructions[k].argument >= 3
  /\ Len(instructions) >= 2

\* C8: lex_program never fails; after each character it holds the tokens of
\* the operator characters read so far, in order; a text without operator
\* characters gives no tokens and parse_program then gives no instructions.
C8_LexerFilters ==
  /\ pc = "lex" =>
       /\ fault = "none"
       /\ tokens = OperatorTokens(SubSeq(program, 1, ci))
  /\ pc # "lex" => tokens = OperatorTokens(program)
  /\ (pc # "lex" /\ \A k \in 1..Len(program) : ~IsOpChar(program[k])) =>
       /\ tokens = <<>>
       /\ instructions = <<>>
       /\ pc # "panic"

C8_Witness ==
  /\ pc = "done"
  /\ \E k \in 1..Len(program) : ~IsOpChar(program[k])
  /\ \E k \in 1..Len(program) : program[k] = ","
  /\ Len(tokens) >= 2

\* C14 (as claimed): when produce_code has finished, the emitted text holds
\* one print line per `.` of the source and one read line per `,`.
C14_PrintAndReadCounts ==
  pc = "done" =>
    /\ Cardinality(LinesOf("invokevirtual java/io/PrintStream/print(C)V"))
         = Cardinality({k \in 1..Len(program) : program[k] = "."})
    /\ Cardinality(LinesOf("invokevirtual java/io/InputStream/read()I"))
         = Cardinality({k \in 1..Len(program) : program[k] = ","})

\* C16: on the list parse_program returns, produce_code never reaches a
\* JumpIfNonZero with an empty label stack (so it never panics), and when the
\* brackets of the source are balanced the label stack is empty at the end.
C16_LabelStackNeverUnderflows ==
  /\ (pc = "gen" /\ gi < Len(instructions)
        /\ instructions[gi + 1].typ = "JumpIfNonZero") => loop_stack # <<>>
  /\ pc = "panic" => code = <<>>
  /\ (pc = "done" /\ Balanced(tokens)) => loop_stack = <<>>

C16_Witness ==
  /\ pc = "done"
  /\ Balanced(tokens)
  /\ CountTyp(instructions, "JumpIfNonZero") >= 3
  /\ loop_stack = <<>>

\* the indices of the JumpIfZero instructions that no JumpIfNonZero names
UnmatchedOpens(insts) ==
  {k \in 0..(Len(insts) - 1) :
     /\ insts[k + 1].typ = "JumpIfZero"
     /\ ~\E j \in 0..(Len(insts) - 1) :
          insts[j + 1].typ = "JumpIfNonZero" /\ insts[j + 1].argument = k}

\* C17: after every step of parse_program the jump-match stack holds, in
\* increasing order, exactly the indices of the JumpIfZero instructions that
\* have no JumpIfNonZero yet; these carry argument 0; every other JumpIfZero
\* carries the index of a JumpIfNonZero that names it back; and the stack is
\* empty when the parse of a balanced program has returned.
C17_JumpMatchStack ==
  pc # "lex" =>
    /\ \A a, b \in 1..Len(parse_stack) : a < b => parse_stack[a] < parse_stack[b]
    /\ {parse_stack[a] : a \in 1..Len(parse_stack)} = UnmatchedOpens(instructions)
    /\ \A k \in UnmatchedOpens(instructions) : instructions[k + 1].argument = 0
    /\ \A k \in 0..(Len(instructions) - 1) :
         (instructions[k + 1].typ = "JumpIfZero" /\ k \notin UnmatchedOpens(instructions)) =>
           LET j == instructions[k + 1].argument IN
             /\ j \in (k + 1)..(Len(instructions) - 1)
             /\ instructions[j + 1] = Inst("JumpIfNonZero", k)
    /\ (ParseReturned /\ Balanced(tokens)) => parse_stack = <<>>

C17_Witness ==
  /\ pc = "parse"
  /\ Len(parse_stack) >= 2
  /\ CountTyp(instructions, "JumpIfNonZero") >= 2

\* C18: in the list parse_program returns every foldable instruction has an
\* argument >= 1, no two adjacent instructions have the same foldable kind, and
\* the arguments are the lengths of the runs of the token sequence (expanding
\* gives it back); `++>+` gives (Plus,2), (Right,1), (Plus,1).
C18_MaximalFolding ==
  ParseReturned =>
    /\ \A k \in 1..Len(instructions) :
         instructions[k].typ \in Foldable => instructions[k].argument >= 1
    /\ \A k \in 1..(Len(instructions) - 1) :
         instructions[k].typ \in Foldable => instructions[k + 1].typ # instructions[k].typ
    /\ Expand(instructions) = tokens
    /\ program = <<"+", "+", ">", "+">> =>
         instructions = << Inst("Plus", 2), Inst("Right", 1), Inst("Plus", 1) >>

C18_Witness ==
  /\ ParseReturned
  /\ program = <<"+", "+", ">", "+">>
  /\ Len(instructions) = 3

----------------------------------------------------------------------------
(* interpret.                                                              *)
(*                                                                         *)
(* ptr is a usize.  With overflow checks off, `ptr -= 1` at 0 wraps to     *)
(* 2^64 - 1; the model keeps the integer ptr with the meaning ptr mod 2^64,*)
(* so -1 stands for 2^64 - 1.  Every such value is outside the tape.       *)
(* With overflow checks on, an overflowing += or -= panics.                *)

InTape(p) == p \in 0..(TapeLen - 1)

Running == pc = "interpret" /\ i < ByteLen(program)

\* program.chars().nth(i) is Some(c)
HasChar == i < Len(program)
CurChar == program[i + 1]

Panic(f) ==
  /\ pc' = "panic"
  /\ fault' = f
  /\ UNCHANGED <<program, overflow_checks>>
  /\ UNCHANGED compileVars
  /\ UNCHANGED interpVars

\* the results of stdin().read_line: an error, or a line (character codes):
\* end of input, an empty line, "a", and a line starting with U+0100
ReadResults ==
  { [ok |-> FALSE, line |-> <<>>],
    [ok |-> TRUE,  line |-> <<>>],
    [ok |-> TRUE,  line |-> <<10>>],
    [ok |-> TRUE,  line |-> <<97, 10>>],
    [ok |-> TRUE,  line |-> <<256, 10>>] }

\* the sources given to interpret: every text of at most MaxSrcLen characters,
\* every text of at most MaxLoopLen loop characters, and counting loops
LoopChars == {"+", "-", "[", "]"}

\* the run lengths n of the counting loops +^n [-]: the short ones and the
\* longest one a cell can count
CountingRuns == (1..MaxCount) \cup {CellMod - 1}

CountingSource(n) ==
  [k \in 1..(n + 3) |-> IF k <= n THEN "+"
                        ELSE IF k = n + 1 THEN "["
                        ELSE IF k = n + 2 THEN "-" ELSE "]"]

InterpSources ==
  SeqsUpTo(Alphabet, MaxSrcLen)
    \cup SeqsUpTo(LoopChars, MaxLoopLen)
    \cup {CountingSource(n) : n \in CountingRuns}

\* program.chars().nth(i).unwrap() when i is a byte offset past the last character
NthFault ==
  /\ Running
  /\ ~HasChar
  /\ Panic("unwrap_none")

\* an iteration in skip mode: the `if is_looping { ... continue; }` block
SkipStep ==
  /\ Running
  /\ HasChar
  /\ is_looping
  /\ IF CurChar = "["
     THEN /\ inner_loops < MaxInner
          /\ inner_loops' = inner_loops + 1
          /\ UNCHANGED is_looping
     ELSE IF CurChar = "]"
     THEN IF inner_loops = 0
          THEN is_looping' = FALSE /\ UNCHANGED inner_loops
          ELSE inner_loops' = inner_loops - 1 /\ UNCHANGED is_looping
     ELSE UNCHANGED <<is_looping, inner_loops>>
  /\ UNCHANGED <<program, overflow_checks, pc, fault, tape, ptr, stack, i, output, stdout, read_line>>
  /\ UNCHANGED compileVars

\* an iteration in normal mode on character c
Exec(c) ==
  /\ Running
  /\ HasChar
  /\ ~is_looping
  /\ CurChar = c

\* u8 += 1
AddOne(v) ==
  IF v = CellMod - 1 /\ overflow_checks
  THEN [ok |-> FALSE, val |-> v]
  ELSE [ok |-> TRUE, val |-> (v + 1) % CellMod]

\* u8 -= 1
SubOne(v) ==
  IF v = 0 /\ overflow_checks
  THEN [ok |-> FALSE, val |-> v]
  ELSE [ok |-> TRUE, val |-> (v - 1) % CellMod]

\* '+' => tape[ptr] += 1
Incr ==
  /\ Exec("+")
  /\ IF ~InTape(ptr) THEN Panic("index_oob")
     ELSE IF ~AddOne(tape[ptr]).ok THEN Panic("add_overflow")
     ELSE /\ tape' = [tape EXCEPT ![ptr] = AddOne(tape[ptr]).val]
          /\ i' = i + 1
          /\ UNCHANGED <<program, overflow_checks, pc, fault, ptr, stack,
                         is_looping, inner_loops, output, stdout, read_line>>
          /\ UNCHANGED compileVars

\* '-' => tape[ptr] -= 1
Decr ==
  /\ Exec("-")
  /\ IF ~InTape(ptr) THEN Panic("index_oob")
     ELSE IF ~SubOne(tape[ptr]).ok THEN Panic("sub_overflow")
     ELSE /\ tape' = [tape EXCEPT ![ptr] = SubOne(tape[ptr]).val]
          /\ i' = i + 1
          /\ UNCHANGED <<program, overflow_checks, pc, fault, ptr, stack,
                         is_looping, inner_loops, output, stdout, read_line>>
          /\ UNCHANGED compileVars

\* '>' => ptr += 1
MoveRight ==
  /\ Exec(">")
  /\ ptr' = ptr + 1
  /\ i' = i + 1
  /\ UNCHANGED <<program, overflow_checks, pc, fault, tape, stack,
                 is_looping, inner_loops, output, stdout, read_line>>
  /\ UNCHANGED compileVars

\* '<' => ptr -= 1
MoveLeft ==
  /\ Exec("<")
  /\ IF ptr = 0 /\ overflow_checks THEN Panic("sub_overflow")
     ELSE /\ ptr' = ptr - 1
          /\ i' = i + 1
          /\ UNCHANGED <<program, overflow_checks, pc, fault, tape, stack,
                         is_looping, inner_loops, output, stdout, read_line>>
          /\ UNCHANGED compileVars

\* '[' => enter skip mode on a zero cell, else push i
LoopOpen ==
  /\ Exec("[")
  /\ IF ~InTape(ptr) THEN Panic("index_oob")
     ELSE /\ IF tape[ptr] = 0
             THEN is_looping' = TRUE /\ UNCHANGED stack
             ELSE stack' = Append(stack, i) /\ UNCHANGED is_looping
          /\ i' = i + 1
          /\ UNCHANGED <<program, overflow_checks, pc, fault, tape, ptr,
                         inner_loops, output, stdout, read_line>>
          /\ UNCHANGED compileVars

\* the ']' arm that leaves the stack alone on a zero cell
LoopClose_NoPop ==
  /\ Exec("]")
  /\ IF ~InTape(ptr) THEN Panic("index_oob")
     ELSE IF tape[ptr] # 0 /\ stack = <<>> THEN Panic("unwrap_none")
     ELSE /\ IF tape[ptr] # 0
             THEN i' = Last(stack) + 1
             ELSE i' = i + 1
          /\ UNCHANGED <<program, overflow_checks, pc, fault, tape, ptr, stack,
                         is_looping, inner_loops, output, stdout, read_line>>
          /\ UNCHANGED compileVars

\* ']' => back to the top of the stack on a non-zero cell, else pop
LoopClose ==
  /\ Exec("]")
  /\ IF ~InTape(ptr) THEN Panic("index_oob")
     ELSE IF tape[ptr] # 0 /\ stack = <<>> THEN Panic("unwrap_none")
     ELSE /\ IF tape[ptr] # 0
             THEN i' = Last(stack) + 1 /\ UNCHANGED stack
             ELSE /\ stack' = IF stack = <<>> THEN stack ELSE Front(stack)
                  /\ i' = i + 1
          /\ UNCHANGED <<program, overflow_checks, pc, fault, tape, ptr,
                         is_looping, inner_loops, output, stdout, read_line>>
          /\ UNCHANGED compileVars

\* the '.' arm that prints the character at once instead of buffering it
PutChar_Streaming ==
  /\ Exec(".")
  /\ IF ~InTape(ptr) THEN Panic("index_oob")
     ELSE /\ Len(stdout) < MaxOutput
          /\ stdout' = Append(stdout, <<tape[ptr]>>)
          /\ i' = i + 1
          /\ UNCHANGED <<program, overflow_checks, pc, fault, tape, ptr, stack,
                         is_looping, inner_loops, output, read_line>>
          /\ UNCHANGED compileVars

\* '.' => output.push(tape[ptr] as char)
PutChar ==
  /\ Exec(".")
  /\ IF ~InTape(ptr) THEN Panic("index_oob")
     ELSE /\ Len(output) < MaxOutput
          /\ output' = Append(output, tape[ptr])
          /\ i' = i + 1
          /\ UNCHANGED <<program, overflow_checks, pc, fault, tape, ptr, stack,
                         is_looping, inner_loops, stdout, read_line>>
          /\ UNCHANGED compileVars

\* a panic inside the ',' arm, after read_line has returned
ReadPanic(f) ==
  /\ pc' = "panic"
  /\ fault' = f
  /\ UNCHANGED <<program, overflow_checks, tape, ptr, stack, is_looping,
                 inner_loops, i, output, stdout>>
  /\ UNCHANGED compileVars

\* the ',' arm that leaves the cell alone on an empty line instead of panicking
ReadChar_SoftEmpty ==
  /\ Exec(",")
  /\ \E r \in ReadResults :
       /\ read_line' = r
       /\ IF r.ok /\ r.line # <<>> /\ ~InTape(ptr) THEN ReadPanic("index_oob")
          ELSE /\ tape' = IF r.ok /\ r.line # <<>>
                          THEN [tape EXCEPT ![ptr] = r.line[1] % CellMod]
                          ELSE tape
               /\ i' = i + 1
               /\ UNCHANGED <<program, overflow_checks, pc, fault, ptr, stack,
                              is_looping, inner_loops, output, stdout>>
               /\ UNCHANGED compileVars

\* ',' => read a line, store its first character as u8
ReadChar ==
  /\ Exec(",")
  /\ \E r \in ReadResults :
       /\ read_line' = r
       /\ IF r.ok /\ r.line = <<>> THEN ReadPanic("unwrap_none")
          ELSE IF r.ok /\ ~InTape(ptr) THEN ReadPanic("index_oob")
          ELSE /\ tape' = IF r.ok THEN [tape EXCEPT ![ptr] = r.line[1] % CellMod]
                          ELSE tape
               /\ i' = i + 1
               /\ UNCHANGED <<program, overflow_checks, pc, fault, ptr, stack,
                              is_looping, inner_loops, output, stdout>>
               /\ UNCHANGED compileVars

\* _ => ()
SkipOther ==
  /\ Running
  /\ HasChar
  /\ ~is_looping
  /\ ~IsOpChar(CurChar)
  /\ i' = i + 1
  /\ UNCHANGED <<program, overflow_checks, pc, fault, tape, ptr, stack,
                 is_looping, inner_loops, output, stdout, read_line>>
  /\ UNCHANGED compileVars

\* the loop ends; println!("{}", output)
InterpReturn ==
  /\ pc = "interpret"
  /\ i >= ByteLen(program)
  /\ stdout' = Append(stdout, output)
  /\ pc' = "done"
  /\ UNCHANGED <<program, overflow_checks, fault, tape, ptr, stack,
                 is_looping, inner_loops, i, output, read_line>>
  /\ UNCHANGED compileVars

InterpInit ==
  /\ program \in InterpSources
  /\ overflow_checks \in BOOLEAN
  /\ pc = "interpret"
  /\ fault = "none"
  /\ ci = 0
  /\ tokens = <<>>
  /\ pos = 0
  /\ instructions = <<>>
  /\ parse_stack = <<>>
  /\ gi = 0
  /\ code = <<>>
  /\ loop_stack = <<>>
  /\ tape = ZeroTape
  /\ ptr = 0
  /\ stack = <<>>
  /\ is_looping = FALSE
  /\ inner_loops = 0
  /\ i = 0
  /\ output = <<>>
  /\ stdout = <<>>
  /\ read_line = NothingRead

InterpNext ==
  \/ NthFault
  \/ SkipStep
  \/ Incr
  \/ Decr
  \/ MoveRight
  \/ MoveLeft
  \/ LoopOpen
  \/ LoopClose
  \/ PutChar
  \/ ReadChar
  \/ SkipOther
  \/ InterpReturn

InterpSpec == InterpInit /\ [][InterpNext]_vars

\* the single thread of the program keeps running while it can take a step
FairInterpSpec == InterpSpec /\ WF_vars(InterpNext)

----------------------------------------------------------------------------
(* Properties of the interpreter *)

RECURSIVE MatchFrom(_, _, _)
\* scanning text from 0-based place k at nesting depth d: the place of the `]`
\* that closes depth 0, or -1 when there is none
MatchFrom(text, k, d) ==
  IF k >= Len(text) THEN -1
  ELSE IF text[k + 1] = "[" THEN MatchFrom(text, k + 1, d + 1)
  ELSE IF text[k + 1] = "]"
       THEN (IF d = 0 THEN k ELSE MatchFrom(text, k + 1, d - 1))
  ELSE MatchFrom(text, k + 1, d)

\* the place of the `]` structurally matching the `[` at place p, or -1
MatchingClose(text, p) == MatchFrom(text, p + 1, 0)

\* skip mode has just been entered by the `[` at place p, whose `]` exists
SkipEntered(p) ==
  /\ pc = "interpret"
  /\ is_looping
  /\ inner_loops = 0
  /\ i = p + 1
  /\ p < Len(program)
  /\ program[p + 1] = "["
  /\ MatchingClose(program, p) >= 0

\* normal execution has resumed at the character after the `]` matching place p
ResumedAfter(p) ==
  /\ pc = "interpret"
  /\ ~is_looping
  /\ p < Len(program)
  /\ program[p + 1] = "["
  /\ i = MatchingClose(program, p) + 1

\* C9 (as claimed, checked under FairInterpSpec): once a `[` at place p has
\* been executed on a zero cell and its matching `]` exists, the interpreter
\* eventually leaves skip mode and resumes after that `]`.
C9_SkipReachesMatchingClose ==
  \A p \in 0..(MaxSrcLen - 1) : SkipEntered(p) ~> ResumedAfter(p)

\* C10 (as claimed, checked under InterpSpec): executing `+` (`-`) on a cell
\* of the tape holding v leaves the interpreter running with (v + 1) mod 256
\* ((v - 1) mod 256) in the cell.
C10_IncrDecrWrapWithoutFault ==
  [][ /\ (Exec("+") /\ InTape(ptr)) =>
           (pc' = "interpret" /\ tape'[ptr] = (tape[ptr] + 1) % CellMod)
      /\ (Exec("-") /\ InTape(ptr)) =>
           (pc' = "interpret" /\ tape'[ptr] = (tape[ptr] - 1) % CellMod)
    ]_vars

\* the source is the counting loop +^n [-]
IsCounting(n) == program = CountingSource(n)

\* what holds all along the run of the counting loop with n increments
CountingRunStates(n) ==
  /\ pc # "panic"
  /\ ptr = 0
  /\ output = <<>>
  /\ ~is_looping
  /\ (pc = "interpret" /\ i = n) => (tape[0] = n /\ stack = <<>>)
  /\ (pc = "interpret" /\ i \in {n + 1, n + 2}) => stack = <<n>>
  /\ pc = "done" => /\ tape = ZeroTape
                    /\ stack = <<>>
                    /\ stdout = << <<>> >>

\* C11 (checked under FairInterpSpec): for the source +^n [-] the interpreter
\* terminates; the cell holds n when the loop is reached, every execution of
\* the body `-` takes the cell from v >= 1 to v - 1 (so the body runs exactly
\* n times), and the run ends with the cell at 0, an empty re-entry stack and
\* empty output.
C11_CountingLoopTerminates ==
  /\ [](\A n \in CountingRuns : IsCounting(n) => CountingRunStates(n))
  /\ [][ ((\E n \in CountingRuns : IsCounting(n)) /\ Exec("-")) =>
           (tape[0] >= 1 /\ tape'[0] = tape[0] - 1 /\ pc' = "interpret") ]_vars
  /\ ((\E n \in CountingRuns : IsCounting(n)) /\ pc = "interpret") ~> (pc = "done")

C11_Witness ==
  /\ pc = "done"
  /\ IsCounting(CellMod - 1)
  /\ tape[0] = 0

\* C12 (checked under InterpSpec): nothing is printed while the interpreter
\* scans (or when it panics); each executed `.` appends the value of the
\* current cell to the buffer and no other step changes the buffer; when the
\* interpreter is done the scan position is at the end of the source and the
\* buffer has been printed exactly once; `++.` prints the character of code 2.
C12_OutputPrintedOnceAtEnd ==
  /\ [](pc \in {"interpret", "panic"} => stdout = <<>>)
  /\ [](pc = "done" => (stdout = <<output>> /\ i >= ByteLen(program)))
  /\ []((pc = "done" /\ program = <<"+", "+", ".">>) => stdout = << <<2>> >>)
  /\ [][ /\ (Exec(".") /\ InTape(ptr)) => output' = Append(output, tape[ptr])
         /\ ~Exec(".") => output' = output ]_vars

C12_Witness ==
  /\ pc = "done"
  /\ program = <<"+", "+", ".">>
  /\ stdout = << <<2>> >>

\* execution continues with the next character, pointer and the rest unchanged
ContinuesAfterRead ==
  /\ pc' = "interpret"
  /\ fault' = "none"
  /\ i' = i + 1
  /\ UNCHANGED <<ptr, stack, is_looping, inner_loops, output, stdout>>

\* C13 (as claimed, checked under InterpSpec): executing `,` with the pointer
\* in the tape stores the code of the first character of the line read and
\* continues; when the read fails or the line read is empty, tape and pointer
\* are unchanged and execution continues with the next character.
C13_ReadAsClaimed ==
  [][ (Exec(",") /\ InTape(ptr)) =>
        /\ ContinuesAfterRead
        /\ IF read_line'.ok /\ read_line'.line # <<>>
           THEN tape' = [tape EXCEPT ![ptr] = read_line'.line[1]]
           ELSE tape' = tape
    ]_vars

\* C13 (amended, checked under InterpSpec): executing `,` when the read fails
\* leaves tape and pointer unchanged and continues with the next character;
\* when the read gives an empty line (end of input) the interpreter panics on
\* the missing first character, tape and pointer unchanged; when it gives a
\* non-empty line and the pointer is in the tape, the code of the first
\* character modulo 256 is stored in the current cell and execution continues
\* (with the pointer outside the tape the store panics).
C13_ReadStoresOrPanics ==
  [][ Exec(",") =>
        LET r == read_line' IN
          /\ r \in ReadResults
          /\ IF ~r.ok
             THEN ContinuesAfterRead /\ tape' = tape
             ELSE IF r.line = <<>>
             THEN /\ pc' = "panic" /\ fault' = "unwrap_none"
                  /\ UNCHANGED <<tape, ptr, i, output, stdout>>
             ELSE IF InTape(ptr)
             THEN /\ ContinuesAfterRead
                  /\ tape' = [tape EXCEPT ![ptr] = r.line[1] % CellMod]
             ELSE /\ pc' = "panic" /\ fault' = "index_oob"
                  /\ UNCHANGED <<tape, ptr, i, output, stdout>>
    ]_vars

C13_Witness ==
  /\ program = <<",", ",">>
  /\ pc = "panic"
  /\ fault = "unwrap_none"
  /\ i = 1
  /\ tape[0] = 97
  /\ read_line = [ok |-> TRUE, line |-> <<>>]

\* the brackets of the source are balanced
WellBracketed == Balanced(OperatorTokens(program))

\* the places of the `[` whose loop encloses place k: opened before k and
\* closed at k or later
EnclosingOpens(k) ==
  {p \in 0..(k - 1) : program[p + 1] = "[" /\ MatchingClose(program, p) >= k}

\* at the `]` of an empty loop `[]` the loop may have been skipped (entered on
\* a zero cell), and then its `[` is not among the loops being executed
MaybeSkipped(k) ==
  IF k >= 1 /\ k < Len(program) /\ program[k + 1] = "]" /\ program[k] = "["
  THEN {k - 1} ELSE {}

StackSet == {stack[a] : a \in 1..Len(stack)}

\* C15 (as claimed, checked under InterpSpec): for a well-bracketed source, in
\* every normal-mode state the re-entry stack holds, innermost on top, exactly
\* the places of the `[` of the loops being executed, which are the loops
\* enclosing the scan position.
C15_ReentryStackHoldsOpenLoops ==
  (WellBracketed /\ pc = "interpret" /\ ~is_looping) =>
    /\ \A a, b \in 1..Len(stack) : a < b => stack[a] < stack[b]
    /\ \/ StackSet = EnclosingOpens(i)
       \/ StackSet = EnclosingOpens(i) \ MaybeSkipped(i)

\* the character executed reads or writes tape[ptr]
AccessesTape == \E c \in {"+", "-", "[", "]", "."} : Exec(c)

\* C19 (as claimed, checked under InterpSpec): the tape always has TapeLen
\* cells; `>` adds 1 to the pointer; `<` subtracts 1 from a pointer above 0
\* and, at 0, faults; an access to the tape with the pointer at TapeLen or
\* beyond faults.
C19_PointerMovesAndFaults ==
  /\ [](DOMAIN tape = 0..(TapeLen - 1))
  /\ [][ /\ Exec(">") => (ptr' = ptr + 1 /\ pc' = "interpret")
         /\ (Exec("<") /\ ptr > 0) => (ptr' = ptr - 1 /\ pc' = "interpret")
         /\ (Exec("<") /\ ptr = 0) => pc' = "panic"
         /\ (AccessesTape /\ ptr >= TapeLen) => pc' = "panic"
       ]_vars

\* C20 (as claimed, checked under InterpSpec): no fault comes from an ignored
\* character (every panic is the panic of an operator being executed), and a
\* text without operator characters runs like the empty text: it never panics
\* and leaves the tape zero, the pointer at 0 and the output empty.
C20_NonOperatorsIgnored ==
  /\ pc = "panic" => (i < Len(program) /\ IsOpChar(program[i + 1]))
  /\ (\A k \in 1..Len(program) : ~IsOpChar(program[k])) =>
       /\ pc # "panic"
       /\ tape = ZeroTape
       /\ ptr = 0
       /\ output = <<>>

=============================================================================
